---- MODULE Spec2Model ----
(***************************************************************************)
(* Workflow orchestration of the BotArmy proof of concept.                 *)
(*                                                                         *)
(* The repository holds several implementations of the orchestration       *)
(* engine.  Each behaviour of this model runs one of them, chosen by the   *)
(* variable "variant":                                                     *)
(*   AM  AgentManager  (agent_system_manager_WIP_20250817_202835.py)       *)
(*   WP  WorkflowPipeline (fixed_developer_agent.py)                       *)
(*   CM  AgentManager  (complete_backend_generator.py)                     *)
(*   AQ  the actions table of main.py / agents.py / database.py            *)
(*   CD  Database conflicts (complete_backend_generator.py)                *)
(*   FS  StateManager conflicts (fixed_developer_agent.py)                 *)
(*   SM  StateManager transitions (backend_generator.py)                   *)
(*   MQ  the messages table (database.py)                                  *)
(*   PM  process_message of the analyst and the architect (agents.py)      *)
(*   CH  the chat and agent-action endpoints (main.py)                     *)
(*                                                                         *)
(* A coroutine is cut into steps at the awaits where it really waits: the  *)
(* adapter call, asyncio.sleep, and the database awaits that separate two  *)
(* observable writes.  A database write itself is part of the step that    *)
(* issues it.                                                              *)
(***************************************************************************)
EXTENDS Integers, Sequences, FiniteSets, TLC

\* ------------------------------------------------------------------ bounds
Projects == {"p1", "p2"}
MaxRequests == 2        \* intervention / conflict records kept in the store
MaxClock == 2           \* ticks of the wall clock
MaxInvocations == 5     \* cap on the unbounded retry recursion of CM
MaxMessages == 2        \* rows of the messages table
MaxResumes == 1         \* resume calls counted per project
MaxChat == 3            \* entries of chat_history

\* ------------------------------------------------------- program constants
max_retries == 3        \* AgentManager.max_retries
stage_max_retries == 3  \* WorkflowPipeline._handle_stage_error max_retries
MaxAttempts == 3        \* BaseAgent.max_attempts, the RetryPolicy default
confidence_threshold == 7  \* BaseAgent.confidence_threshold, in tenths

Variants == {"AM", "WP", "CM", "AQ", "CD", "FS", "SM", "MQ", "PM", "CH"}
Agents == {"analyst", "architect", "developer", "tester"}
Options == {"approve", "reject"}
NoProject == "none"
NoResult == [project |-> "none", kind |-> "none"]
NoState == [current_stage |-> "none", previous_stage |-> "none"]

\* AgentManager.pipeline_stages, WorkflowPipeline.pipeline_stages,
\* agent_sequence of process_project
pipeline_stages ==
  << [agent |-> "analyst",   stage |-> "analyzing"],
     [agent |-> "architect", stage |-> "architecting"],
     [agent |-> "developer", stage |-> "developing"],
     [agent |-> "tester",    stage |-> "testing"] >>

NumStages == Len(pipeline_stages)

AgentAt(i) == pipeline_stages[i].agent
StageAt(i) == pipeline_stages[i].stage

\* WorkflowStage values in pipeline order; 0 for the pseudo-stages
StageRank(s) ==
  CASE s = "analyzing" -> 1
    [] s = "architecting" -> 2
    [] s = "developing" -> 3
    [] s = "testing" -> 4
    [] OTHER -> 0

VARIABLES
  variant,            \* the implementation this behaviour runs
  adapter,            \* "succeeds": the Agent Adapter never fails
  submitted,          \* projects the application layer starts a pipeline for
  pc,                 \* position of each project's pipeline coroutine
  idx,                \* index of the stage the coroutine is in
  attempt,            \* loop variable "attempt" of the retry loop
  invocations,        \* adapter calls made in the current stage execution
  current_stage,      \* AgentManager.current_stage
  current_project_id, \* AgentManager.current_project_id
  errors,             \* AgentManager.workflow_data['errors']
  stage_results,      \* AgentManager.stage_results
  dbStage,            \* projects.stage, written by update_project_stage
  dbStatus,           \* projects.status, written by update_project_status
  stage_outputs,      \* pipeline_state["stage_outputs"] / active_projects results
  requests,           \* actions / conflicts / intervention_requests rows
  messages,           \* messages rows
  clock,              \* CURRENT_TIMESTAMP
  cancelRequested,    \* history: cancel was called during the current run
  resumes,            \* history: resume_workflow calls per project
  sm_cache,           \* StateManager._state_cache
  sm_db,              \* projects.metadata["workflow_state"]
  lastError,          \* history: class of the failure the project's last
                      \* adapter call ended in, "none" if it succeeded
  succeeded,          \* history: agents whose adapter call returned valid output
  agents,             \* the agent objects: status, current_task and the
                      \* position of a process_message call in flight
  chat_history        \* chat_history of main.py

vars == << variant, adapter, submitted, pc, idx, attempt, invocations, current_stage,
           current_project_id, errors, stage_results, dbStage, dbStatus,
           stage_outputs, requests, messages, clock, cancelRequested,
           resumes, sm_cache, sm_db, lastError, succeeded, agents,
           chat_history >>

amVars == << current_stage, current_project_id, errors, stage_results >>
smVars == << sm_cache, sm_db >>
taskVars == << pc, idx, attempt, invocations >>

\* ------------------------------------------------------------ adapter model
\* What one Agent Adapter call can do.  "ok": valid output of confidence 0.9;
\* "low_confidence": valid output of confidence 0.4; "needs_approval": valid
\* output flagged requires_human_approval; "invalid_output": process()
\* returned output that is empty or lacks required fields, validate_output
\* is False and execute_with_tracking returns the error dictionary of the
\* ValueError it raised for it; "error_dict": process() raised inside
\* execute_with_tracking, which returns an error dictionary; "timeout": the call
\* outlived timeout_seconds; "invalid_input": validate_input failed;
\* "transient": an exception whose text names a rate limit, timeout or
\* connection failure; "fatal": any other exception.
SuccessOutcomes == {"ok", "low_confidence", "needs_approval"}

\* The confidence score, in tenths, an LLM response or a stage result carries.
Confidences == {4, 9}

\* The confidence field of a stage result.
ConfidenceOf(kind) == IF kind = "low_confidence" THEN 4 ELSE 9

AM_Outcomes ==
  IF adapter = "succeeds" THEN SuccessOutcomes
  ELSE SuccessOutcomes
         \cup {"invalid_output", "error_dict", "timeout", "invalid_input"}

RaisingOutcomes ==
  IF adapter = "succeeds" THEN {} ELSE {"transient", "fatal"}

\* The class of the failure an adapter call ended in: a timeout is Transient,
\* the ValueError of a failed validate_input is Fatal.
ErrorClass(outcome) ==
  CASE outcome \in {"timeout", "transient"} -> "transient"
    [] outcome \in {"invalid_input", "fatal"} -> "fatal"
    [] OTHER -> "none"

\* The history variables after p's adapter call ended in outcome.
RecordOutcome(p, outcome) ==
  /\ lastError' = [lastError EXCEPT ![p] = ErrorClass(outcome)]
  /\ succeeded' = IF outcome \in SuccessOutcomes
                  THEN [succeeded EXCEPT ![p] = @ \cup {AgentAt(idx[p])}]
                  ELSE succeeded

\* ------------------------------------------------------------ request rows
NewRequest(id, p, stage) ==
  [id |-> id, project |-> p, stage |-> stage, status |-> "pending",
   resolution |-> "none", resolved_at |-> -1]

PendingOf(p) ==
  {i \in 1..Len(requests) :
     requests[i].project = p /\ requests[i].status = "pending"}

\* An agent object: status and current_task, and for a process_message call
\* the position of the coroutine ("llm": awaiting generate_response), the
\* project_id of the message it awaits the response for and the status of
\* the result it returned last ("none": it returned None or has not returned).  overlap is
\* history: another agent's call was in flight during this one.
agent_object(status, task) ==
  [status |-> status, current_task |-> task, pc |-> "idle",
   project |-> NoProject, result |-> "none", overlap |-> FALSE]

\* BaseAgent.__init__
base_agents == [a \in Agents |-> agent_object("idle", "none")]

\* The agents dictionary of main.py after module initialisation.
main_agents ==
  [a \in Agents |->
     CASE a \in {"analyst", "architect"} ->
            agent_object("idle", "Ready for instructions")
       [] a = "developer" ->
            agent_object("working", "Implementing user authentication system")
       [] OTHER -> agent_object("idle", "none")]

\* The manager objects and the store right after construction.
InitState ==
  /\ pc = [p \in Projects |-> "new"]
  /\ idx = [p \in Projects |-> 0]
  /\ attempt = [p \in Projects |-> 0]
  /\ invocations = [p \in Projects |-> 0]
  /\ current_stage = "idle"
  /\ current_project_id = NoProject
  /\ errors = << >>
  /\ stage_results = [a \in Agents |-> NoResult]
  /\ dbStage = [p \in Projects |-> "idle"]
  /\ dbStatus = [p \in Projects |-> "created"]
  /\ stage_outputs = [p \in Projects |-> {}]
  /\ requests = << >>
  /\ messages = << >>
  /\ clock = 0
  /\ cancelRequested = [p \in Projects |-> FALSE]
  /\ resumes = [p \in Projects |-> 0]
  /\ sm_cache = [p \in Projects |-> NoState]
  /\ sm_db = [p \in Projects |-> NoState]
  /\ lastError = [p \in Projects |-> "none"]
  /\ succeeded = [p \in Projects |-> {}]
  /\ agents = IF variant = "CH" THEN main_agents ELSE base_agents
  /\ chat_history = << >>

Init ==
  /\ variant \in Variants
  /\ adapter \in {"succeeds", "unreliable"}
  /\ submitted = {"p1"}
  /\ InitState

\* ===================================================== AM: AgentManager WIP
\* Top of the "for agent_type, stage in self.pipeline_stages" loop: the stage
\* is written to the manager and to the database.
AM_enter_stage(p, i) ==
  /\ current_stage' = StageAt(i)
  /\ dbStage' = [dbStage EXCEPT ![p] = StageAt(i)]
  /\ idx' = [idx EXCEPT ![p] = i]
  /\ pc' = [pc EXCEPT ![p] = "stage_set"]

\* AgentManager.process_project, up to the first database await.
AM_process_project(p) ==
  /\ variant = "AM"
  /\ p \in submitted
  /\ pc[p] = "new"
  /\ current_project_id' = p
  /\ errors' = << >>
  /\ stage_results' = [a \in Agents |-> NoResult]
  /\ AM_enter_stage(p, 1)
  /\ cancelRequested' = [cancelRequested EXCEPT ![p] = FALSE]
  /\ UNCHANGED << variant, adapter, submitted, agents, chat_history,
                  lastError, succeeded,
                  attempt, invocations, dbStatus,
                  stage_outputs, requests, messages, clock, resumes, smVars >>

\* AgentManager._process_stage, first pass of the retry loop: the adapter is
\* called under asyncio.wait_for.
AM_process_stage(p) ==
  /\ variant = "AM"
  /\ pc[p] = "stage_set"
  /\ attempt' = [attempt EXCEPT ![p] = 0]
  /\ invocations' = [invocations EXCEPT ![p] = 1]
  /\ pc' = [pc EXCEPT ![p] = "exec"]
  /\ lastError' = [lastError EXCEPT ![p] = "none"]
  /\ UNCHANGED << variant, adapter, submitted, agents, chat_history,
                  succeeded, idx, amVars, dbStage,
                  dbStatus, stage_outputs, requests, messages, clock,
                  cancelRequested, resumes, smVars >>

\* The result of a stage is stored and the loop goes on: next stage, or the
\* COMPLETED epilogue after the last one.
AM_store_and_continue(p, kind) ==
  /\ stage_results' =
       [stage_results EXCEPT ![AgentAt(idx[p])] = [project |-> p, kind |-> kind]]
  /\ IF idx[p] < NumStages
     THEN AM_enter_stage(p, idx[p] + 1)
     ELSE /\ current_stage' = "completed"
          /\ dbStage' = [dbStage EXCEPT ![p] = "completed"]
          /\ pc' = [pc EXCEPT ![p] = "done"]
          /\ idx' = idx

\* An entry of workflow_data['errors']: the text and the stage value that was
\* formatted into it ("none" when the text names no stage).
error_msg(text, stage) == [text |-> text, stage |-> stage]

\* except branch of process_project: the pipeline failed.  current_stage is
\* assigned first and error_msg is formatted from it afterwards.
AM_pipeline_failed(p) ==
  /\ current_stage' = "error"
  /\ errors' = Append(errors, error_msg("Pipeline failed at stage", current_stage'))
  /\ dbStage' = [dbStage EXCEPT ![p] = "error"]
  /\ pc' = [pc EXCEPT ![p] = "done"]

\* AgentManager._handle_human_intervention
AM_handle_human_intervention(p) ==
  /\ current_stage' = "waiting_approval"
  /\ requests' = Append(requests,
       NewRequest(Len(requests) + 1, current_project_id, StageAt(idx[p])))
  /\ pc' = [pc EXCEPT ![p] = "intervened"]

\* The adapter call of _process_stage returns, times out or raises.
AM_adapter_returns(p) ==
  /\ variant = "AM"
  /\ pc[p] = "exec"
  /\ \E outcome \in AM_Outcomes :
       \/ /\ outcome = "needs_approval"
          /\ RecordOutcome(p, outcome)
          /\ Len(requests) < MaxRequests
          /\ AM_handle_human_intervention(p)
          /\ UNCHANGED << idx, attempt, invocations, current_project_id, errors,
                          stage_results, dbStage >>
       \/ /\ outcome \in {"ok", "low_confidence", "invalid_output", "error_dict"}
          /\ RecordOutcome(p, outcome)
          /\ AM_store_and_continue(p, outcome)
          /\ UNCHANGED << attempt, invocations, current_project_id, errors,
                          requests >>
       \/ /\ outcome \in {"timeout", "invalid_input"}
          /\ RecordOutcome(p, outcome)
          /\ IF attempt[p] = max_retries - 1
             THEN /\ AM_pipeline_failed(p)
                  /\ UNCHANGED << idx, attempt, invocations >>
             ELSE /\ pc' = [pc EXCEPT ![p] = "sleep"]
                  /\ UNCHANGED << idx, attempt, invocations, current_stage,
                                  errors, dbStage >>
          /\ UNCHANGED << current_project_id, stage_results, requests >>
  /\ UNCHANGED << variant, adapter, submitted, agents, chat_history,
                  dbStatus, stage_outputs, messages,
                  clock, cancelRequested, resumes, smVars >>

\* _process_stage returns the flagged result after the intervention request
\* was written; process_project stores it and goes on.
AM_after_intervention(p) ==
  /\ variant = "AM"
  /\ pc[p] = "intervened"
  /\ AM_store_and_continue(p, "needs_approval")
  /\ UNCHANGED << variant, adapter, submitted, agents, chat_history,
                  lastError, succeeded,
                  attempt, invocations, current_project_id,
                  errors, dbStatus, stage_outputs, requests, messages, clock,
                  cancelRequested, resumes, smVars >>

\* "await asyncio.sleep(2 ** attempt)" ends: next pass of the retry loop.
AM_retry(p) ==
  /\ variant = "AM"
  /\ pc[p] = "sleep"
  /\ attempt' = [attempt EXCEPT ![p] = @ + 1]
  /\ invocations' = [invocations EXCEPT ![p] = @ + 1]
  /\ pc' = [pc EXCEPT ![p] = "exec"]
  /\ UNCHANGED << variant, adapter, submitted, agents, chat_history,
                  lastError, succeeded,
                  idx, amVars, dbStage, dbStatus,
                  stage_outputs, requests, messages, clock, cancelRequested,
                  resumes, smVars >>

\* AgentManager.cancel_workflow
AM_cancel_workflow(p) ==
  /\ variant = "AM"
  /\ ~cancelRequested[p]
  /\ current_project_id = p
  /\ current_stage' = "error"
  /\ errors' = Append(errors, error_msg("Workflow cancelled by user", "none"))
  /\ dbStage' = [dbStage EXCEPT ![p] = "cancelled"]
  /\ cancelRequested' = [cancelRequested EXCEPT ![p] = TRUE]
  /\ UNCHANGED << variant, adapter, submitted, agents, chat_history,
                  lastError, succeeded,
                  taskVars, current_project_id,
                  stage_results, dbStatus, stage_outputs, requests, messages,
                  clock, resumes, smVars >>

\* AgentManager.resume_workflow: reloads the project and resets
\* workflow_data; the "stage" argument is only logged.
AM_resume_workflow(p) ==
  /\ variant = "AM"
  /\ p \in submitted
  /\ resumes[p] < MaxResumes
  /\ current_project_id' = p
  /\ errors' = << >>
  /\ resumes' = [resumes EXCEPT ![p] = @ + 1]
  /\ UNCHANGED << variant, adapter, submitted, agents, chat_history,
                  lastError, succeeded,
                  taskVars, current_stage,
                  stage_results, dbStage, dbStatus, stage_outputs, requests,
                  messages, clock, cancelRequested, smVars >>

\* AgentManager.get_workflow_status
get_workflow_status ==
  [project_id |-> current_project_id, current_stage |-> current_stage,
   errors |-> errors]

\* The process stops after a stage returned and the next stage was written
\* to the database, before the next adapter call, and a new AgentManager is
\* constructed against the same database: every coroutine and every attribute
\* of the manager is gone, the projects and intervention_requests rows remain.
AM_Restart ==
  /\ variant = "AM"
  /\ \E p \in Projects : pc[p] = "stage_set" /\ idx[p] > 1
  /\ pc' = [p \in Projects |-> "new"]
  /\ idx' = [p \in Projects |-> 0]
  /\ attempt' = [p \in Projects |-> 0]
  /\ invocations' = [p \in Projects |-> 0]
  /\ current_stage' = "idle"
  /\ current_project_id' = NoProject
  /\ errors' = << >>
  /\ stage_results' = [a \in Agents |-> NoResult]
  /\ lastError' = [p \in Projects |-> "none"]
  /\ cancelRequested' = [p \in Projects |-> FALSE]
  /\ UNCHANGED << variant, adapter, submitted, agents, chat_history,
                  succeeded, dbStage, dbStatus,
                  stage_outputs, requests, messages, clock, resumes, smVars >>

\* ================================= WP: WorkflowPipeline (fixed_developer_agent)
\* "stage_output = await agent.process(stage_input)" of the next loop pass, or
\* the epilogue after the last stage.
WP_next_stage(p) ==
  IF idx[p] < NumStages
  THEN /\ idx' = [idx EXCEPT ![p] = @ + 1]
       /\ attempt' = [attempt EXCEPT ![p] = 0]
       /\ invocations' = [invocations EXCEPT ![p] = 1]
       /\ pc' = [pc EXCEPT ![p] = "exec"]
       /\ dbStatus' = dbStatus
  ELSE /\ dbStatus' = [dbStatus EXCEPT ![p] = "completed"]
       /\ pc' = [pc EXCEPT ![p] = "done"]
       /\ UNCHANGED << idx, attempt, invocations >>

\* WorkflowPipeline.execute_pipeline up to the first agent.process call.
WP_execute_pipeline(p) ==
  /\ variant = "WP"
  /\ p \in submitted
  /\ pc[p] = "new"
  /\ current_project_id' = p
  /\ dbStatus' = [dbStatus EXCEPT ![p] = "processing"]
  /\ idx' = [idx EXCEPT ![p] = 1]
  /\ attempt' = [attempt EXCEPT ![p] = 0]
  /\ invocations' = [invocations EXCEPT ![p] = 1]
  /\ pc' = [pc EXCEPT ![p] = "exec"]
  /\ UNCHANGED << variant, adapter, submitted, agents, chat_history,
                  lastError, succeeded,
                  current_stage, errors,
                  stage_results, dbStage, stage_outputs, requests, messages,
                  clock, cancelRequested, resumes, smVars >>

\* agent.process of the main loop returns or raises.
WP_adapter_returns(p) ==
  /\ variant = "WP"
  /\ pc[p] = "exec"
  /\ \E outcome \in SuccessOutcomes \cup RaisingOutcomes :
       \/ /\ outcome \in SuccessOutcomes
          /\ RecordOutcome(p, outcome)
          /\ stage_outputs' = [stage_outputs EXCEPT ![p] = @ \cup {AgentAt(idx[p])}]
          /\ WP_next_stage(p)
       \/ /\ outcome \in RaisingOutcomes
          /\ RecordOutcome(p, outcome)
          /\ pc' = [pc EXCEPT ![p] = "retry_sleep"]
          /\ attempt' = [attempt EXCEPT ![p] = 0]
          /\ UNCHANGED << idx, invocations, dbStatus, stage_outputs >>
  /\ UNCHANGED << variant, adapter, submitted, agents, chat_history,
                  amVars, dbStage, requests,
                  messages, clock, cancelRequested, resumes, smVars >>

\* _handle_stage_error: the back-off sleep ends and agent.process is retried.
WP_handle_stage_error(p) ==
  /\ variant = "WP"
  /\ pc[p] = "retry_sleep"
  /\ invocations' = [invocations EXCEPT ![p] = @ + 1]
  /\ pc' = [pc EXCEPT ![p] = "retry_exec"]
  /\ UNCHANGED << variant, adapter, submitted, agents, chat_history,
                  lastError, succeeded,
                  idx, attempt, amVars, dbStage,
                  dbStatus, stage_outputs, requests, messages, clock,
                  cancelRequested, resumes, smVars >>

\* The retried agent.process returns (recovery succeeded, its output is
\* dropped) or raises (next retry, or the pipeline fails).
WP_retry_returns(p) ==
  /\ variant = "WP"
  /\ pc[p] = "retry_exec"
  /\ \E outcome \in SuccessOutcomes \cup RaisingOutcomes :
       \/ /\ outcome \in SuccessOutcomes
          /\ RecordOutcome(p, outcome)
          /\ WP_next_stage(p)
       \/ /\ outcome \in RaisingOutcomes
          /\ RecordOutcome(p, outcome)
          /\ IF attempt[p] + 1 < stage_max_retries
             THEN /\ attempt' = [attempt EXCEPT ![p] = @ + 1]
                  /\ pc' = [pc EXCEPT ![p] = "retry_sleep"]
                  /\ dbStatus' = dbStatus
             ELSE /\ dbStatus' = [dbStatus EXCEPT ![p] = "error"]
                  /\ pc' = [pc EXCEPT ![p] = "done"]
                  /\ attempt' = attempt
          /\ UNCHANGED << idx, invocations >>
  /\ UNCHANGED << variant, adapter, submitted, agents, chat_history,
                  amVars, dbStage, stage_outputs,
                  requests, messages, clock, cancelRequested, resumes, smVars >>

\* WorkflowPipeline.cancel_pipeline: the body is "pass".
WP_cancel_pipeline(p) ==
  /\ variant = "WP"
  /\ pc[p] # "new"
  /\ ~cancelRequested[p]
  /\ cancelRequested' = [cancelRequested EXCEPT ![p] = TRUE]
  /\ UNCHANGED << variant, adapter, submitted, agents, chat_history,
                  lastError, succeeded,
                  taskVars, amVars, dbStage,
                  dbStatus, stage_outputs, requests, messages, clock, resumes,
                  smVars >>

\* WorkflowPipeline.resume_pipeline: the body is "pass".
WP_resume_pipeline(p) ==
  /\ variant = "WP"
  /\ p \in submitted
  /\ resumes[p] < MaxResumes
  /\ resumes' = [resumes EXCEPT ![p] = @ + 1]
  /\ UNCHANGED << variant, adapter, submitted, agents, chat_history,
                  lastError, succeeded,
                  taskVars, amVars, dbStage,
                  dbStatus, stage_outputs, requests, messages, clock,
                  cancelRequested, smVars >>

\* ============================== CM: AgentManager (complete_backend_generator)
\* agent_dependencies with every dependent agent also listed under itself.
agent_dependencies_self(a) ==
  CASE a = "architect" -> {"analyst", "architect"}
    [] a = "developer" -> {"analyst", "architect", "developer"}
    [] a = "tester" -> {"analyst", "architect", "developer", "tester"}
    [] OTHER -> {}

\* AgentManager.agent_dependencies
agent_dependencies(a) ==
  CASE a = "architect" -> {"analyst"}
    [] a = "developer" -> {"analyst", "architect"}
    [] a = "tester" -> {"analyst", "architect", "developer"}
    [] OTHER -> {}

\* AgentManager._should_retry_agent: the error text names a retryable pattern.
CM_should_retry_agent(outcome) == outcome = "transient"

\* AgentManager._requires_human_intervention
CM_requires_human_intervention(error) == error = "ambiguous"

\* AgentManager.process_project up to the first _wait_for_dependencies.
CM_process_project(p) ==
  /\ variant = "CM"
  /\ p \in submitted
  /\ pc[p] = "new"
  /\ dbStatus' = [dbStatus EXCEPT ![p] = "processing"]
  /\ stage_outputs' = [stage_outputs EXCEPT ![p] = {}]
  /\ idx' = [idx EXCEPT ![p] = 1]
  /\ pc' = [pc EXCEPT ![p] = "wait_deps"]
  /\ UNCHANGED << variant, adapter, submitted, agents, chat_history,
                  lastError, succeeded,
                  attempt, invocations, amVars,
                  dbStage, requests, messages, clock, cancelRequested, resumes,
                  smVars >>

\* AgentManager._wait_for_dependencies: polls until every dependency has a
\* result, then _process_with_agent calls the agent.
CM_wait_for_dependencies(p) ==
  /\ variant = "CM"
  /\ pc[p] = "wait_deps"
  /\ agent_dependencies(AgentAt(idx[p])) \subseteq stage_outputs[p]
  /\ invocations' = [invocations EXCEPT ![p] = 1]
  /\ pc' = [pc EXCEPT ![p] = "exec"]
  /\ UNCHANGED << variant, adapter, submitted, agents, chat_history,
                  lastError, succeeded,
                  idx, attempt, amVars, dbStage,
                  dbStatus, stage_outputs, requests, messages, clock,
                  cancelRequested, resumes, smVars >>

\* AgentManager._process_with_agent: agent.process returns or raises; a
\* retryable error calls _process_with_agent again.
CM_process_with_agent(p) ==
  /\ variant = "CM"
  /\ pc[p] = "exec"
  /\ \E outcome \in SuccessOutcomes \cup RaisingOutcomes :
       \/ /\ outcome \in SuccessOutcomes
          /\ RecordOutcome(p, outcome)
          /\ stage_outputs' = [stage_outputs EXCEPT ![p] = @ \cup {AgentAt(idx[p])}]
          /\ IF idx[p] < NumStages
             THEN /\ idx' = [idx EXCEPT ![p] = @ + 1]
                  /\ pc' = [pc EXCEPT ![p] = "wait_deps"]
                  /\ dbStatus' = dbStatus
             ELSE /\ dbStatus' = [dbStatus EXCEPT ![p] = "completed"]
                  /\ pc' = [pc EXCEPT ![p] = "done"]
                  /\ idx' = idx
          /\ invocations' = invocations
       \/ /\ outcome \in RaisingOutcomes
          /\ RecordOutcome(p, outcome)
          /\ CM_should_retry_agent(outcome)
          /\ invocations[p] < MaxInvocations
          /\ invocations' = [invocations EXCEPT ![p] = @ + 1]
          /\ UNCHANGED << pc, idx, dbStatus, stage_outputs >>
       \/ /\ outcome \in RaisingOutcomes
          /\ RecordOutcome(p, outcome)
          /\ ~CM_should_retry_agent(outcome)
          /\ dbStatus' = [dbStatus EXCEPT ![p] = "error"]
          /\ pc' = [pc EXCEPT ![p] = "done"]
          /\ UNCHANGED << idx, invocations, stage_outputs >>
  /\ UNCHANGED << variant, adapter, submitted, agents, chat_history,
                  attempt, amVars, dbStage,
                  requests, messages, clock, cancelRequested, resumes, smVars >>

\* AgentManager._escalate_to_human: Database.create_conflict with
\* stage = agent_type.
CM_escalate_to_human(p, agent) ==
  requests' = Append(requests, NewRequest(Len(requests) + 1, p, agent))

\* AgentManager.handle_agent_error
CM_handle_agent_error(p, agent, error) ==
  /\ variant = "CM"
  /\ p \in submitted
  /\ dbStatus' = IF pc[p] # "new" THEN [dbStatus EXCEPT ![p] = "error"]
                 ELSE dbStatus
  /\ IF CM_requires_human_intervention(error)
     THEN /\ Len(requests) < MaxRequests
          /\ CM_escalate_to_human(p, agent)
     ELSE requests' = requests
  /\ UNCHANGED << variant, adapter, submitted, agents, chat_history,
                  lastError, succeeded, taskVars,
                  amVars, dbStage,
                  stage_outputs, messages, clock, cancelRequested, resumes,
                  smVars >>

\* =========================== AQ: actions table (main.py, agents.py, database.py)
\* The agents of main.py that derive from BaseAgent.
AQ_Agents == {"analyst", "architect"}

\* UPDATE ... SET status = 'resolved', response = ?, resolved_at =
\* CURRENT_TIMESTAMP WHERE id = ?
UpdateResolved(rows, id, response) ==
  [i \in 1..Len(rows) |->
     IF rows[i].id = id
     THEN [rows[i] EXCEPT !.status = "resolved", !.resolution = response,
                          !.resolved_at = clock]
     ELSE rows[i]]

\* BaseAgent.escalate_to_human: INSERT INTO actions; the title names the agent.
AQ_escalate_to_human(p, agent) ==
  /\ variant = "AQ"
  /\ Len(requests) < MaxRequests
  /\ requests' = Append(requests, NewRequest(Len(requests) + 1, p, agent))
  /\ UNCHANGED << variant, adapter, submitted, agents, chat_history,
                  lastError, succeeded,
                  taskVars, amVars, dbStage,
                  dbStatus, stage_outputs, messages, clock, cancelRequested,
                  resumes, smVars >>

\* respond_to_action of main.py
AQ_respond_to_action(action_id, response) ==
  /\ variant = "AQ"
  /\ requests' = UpdateResolved(requests, action_id, response)
  /\ UNCHANGED << variant, adapter, submitted, agents, chat_history,
                  lastError, succeeded,
                  taskVars, amVars, dbStage,
                  dbStatus, stage_outputs, messages, clock, cancelRequested,
                  resumes, smVars >>

\* ================================== MQ: the messages table (database.py)
\* str(uuid.uuid4()): an identifier no row has yet, in no particular order.
MessageIds == 1..MaxMessages

UsedIds == {messages[i].id : i \in 1..Len(messages)}

\* The row an INSERT INTO messages leaves: timestamp and attempt_number take
\* their column defaults, CURRENT_TIMESTAMP and 1.
message_row(id, p, from, to, type, status, conf) ==
  [id |-> id, project |-> p, from_agent |-> from, to_agent |-> to,
   message_type |-> type, content |-> from, status |-> status,
   confidence |-> conf, timestamp |-> clock, attempt_number |-> 1]

\* DatabaseManager.add_message: status takes the column default 'pending'.
add_message(id, p, from, to, type, conf) ==
  messages' = Append(messages, message_row(id, p, from, to, type, "pending", conf))

\* The to_agent of the handoff each process_message sends.
handoff_to_self(a) == a

handoff_to(a) == IF a = "analyst" THEN "architect" ELSE "developer"

\* add_message called for a handoff to the next agent, with the confidence
\* the sender states.
MQ_add_message(p, from, conf) ==
  /\ variant = "MQ"
  /\ p \in submitted
  /\ Len(messages) < MaxMessages
  /\ \E id \in MessageIds \ UsedIds :
       add_message(id, p, from, handoff_to(from), "handoff", conf)
  /\ UNCHANGED << variant, adapter, submitted, lastError, succeeded,
                  taskVars, amVars, dbStage, dbStatus, stage_outputs, requests,
                  cancelRequested, resumes, smVars, agents, chat_history, clock >>

\* The status values update_message_status is called with.
MessageStatuses == {"processed", "error"}

\* UPDATE messages SET status = ? WHERE id = ?
UpdateStatus_all(rows, id, status) ==
  [i \in 1..Len(rows) |-> [rows[i] EXCEPT !.status = status]]

UpdateStatus(rows, id, status) ==
  [i \in 1..Len(rows) |->
     IF rows[i].id = id THEN [rows[i] EXCEPT !.status = status] ELSE rows[i]]

\* DatabaseManager.update_message_status
MQ_update_message_status(message_id, status) ==
  /\ variant = "MQ"
  /\ messages' = UpdateStatus(messages, message_id, status)
  /\ UNCHANGED << variant, adapter, submitted, lastError, succeeded,
                  taskVars, amVars, dbStage, dbStatus, stage_outputs, requests,
                  cancelRequested, resumes, smVars, agents, chat_history, clock >>

\* SELECT * FROM messages WHERE to_agent = ? AND status = 'pending'
PendingRows(agent_id) ==
  {i \in 1..Len(messages) :
     messages[i].to_agent = agent_id /\ messages[i].status = "pending"}

\* DatabaseManager.get_pending_messages(agent_id): ORDER BY timestamp ASC
\* fixes the order of rows of different timestamps only, so every listing of
\* the selected rows in which timestamps never decrease is a possible result.
get_pending_messages(agent_id) ==
  LET ix == PendingRows(agent_id)
      n == Cardinality(ix)
      orders == {f \in [1..n -> ix] :
                   /\ \A j, k \in 1..n : j # k => f[j] # f[k]
                   /\ \A j, k \in 1..n :
                        j < k => messages[f[j]].timestamp <= messages[f[k]].timestamp}
  IN {[k \in 1..n |-> messages[f[k]]] : f \in orders}

\* ============================== PM: process_message of the agents (agents.py)
\* The message_type each agent's process_message handles.
handled_type(a) == IF a = "analyst" THEN "start_analysis" ELSE "handoff"

MessageTypes == {"start_analysis", "handoff"}

\* What LLMClient.generate_response returns: it catches every exception and
\* returns success False after its retries, so it never raises.
LLM_Outcomes ==
  IF adapter = "succeeds" THEN {"success"}
  ELSE {"success", "invalid_json", "failure"}

\* process_message up to its first await: update_status("thinking", ...), and
\* for the handled message_type the call of generate_response.  For any
\* other message_type no branch is taken and the method returns None.
PM_process_message(a, p, type) ==
  /\ variant = "PM"
  /\ agents[a].pc = "idle"
  /\ IF type = handled_type(a)
     THEN LET others == {b \in AQ_Agents \ {a} : agents[b].pc = "llm"}
          IN agents' =
               [b \in Agents |->
                  IF b = a
                  THEN [agents[a] EXCEPT !.status = "thinking",
                                         !.current_task = "working on message",
                                         !.pc = "llm", !.project = p,
                                         !.result = "none",
                                         !.overlap = others # {}]
                  ELSE IF b \in others
                       THEN [agents[b] EXCEPT !.overlap = TRUE]
                       ELSE agents[b]]
     ELSE agents' = [agents EXCEPT ![a] =
                       [@ EXCEPT !.status = "thinking",
                                 !.current_task = "working on message",
                                 !.result = "none", !.overlap = FALSE]]
  /\ UNCHANGED << variant, adapter, submitted, lastError, succeeded,
                  taskVars, amVars, dbStage, dbStatus, stage_outputs, requests,
                  cancelRequested, resumes, smVars, messages, chat_history, clock >>

\* generate_response returns and process_message runs to its return: on a
\* response that parses, send_message, update_status("idle", ...) and a result
\* of status complete; else update_status("error", ...) and a result of
\* status error.
PM_llm_returns(a) ==
  /\ variant = "PM"
  /\ agents[a].pc = "llm"
  /\ \E outcome \in LLM_Outcomes, conf \in Confidences :
       IF outcome = "success"
       THEN /\ Len(messages) < MaxMessages
            /\ \E id \in MessageIds \ UsedIds :
                 add_message(id, agents[a].project, a, handoff_to(a),
                             "handoff", conf)
            /\ agents' = [agents EXCEPT ![a] =
                            [@ EXCEPT !.status = "idle",
                                      !.current_task = "complete",
                                      !.pc = "idle", !.project = NoProject,
                                      !.result = "complete"]]
       ELSE /\ messages' = messages
            /\ agents' = [agents EXCEPT ![a] =
                            [@ EXCEPT !.status = "error",
                                      !.current_task = outcome,
                                      !.pc = "idle", !.project = NoProject,
                                      !.result = "error"]]
  /\ UNCHANGED << variant, adapter, submitted, lastError, succeeded,
                  taskVars, amVars, dbStage, dbStatus, stage_outputs, requests,
                  cancelRequested, resumes, smVars, chat_history, clock >>

\* ======================================= CH: chat and agent actions (main.py)
\* The agents chat messages and agent actions are addressed to.
ChatTargets == {"analyst", "developer"}

\* An entry of chat_history.
chat_entry(type, from, to, content) ==
  [type |-> type, fromAgent |-> from, targetAgent |-> to, content |-> content]

\* The response_message send_chat_message appends for the target agent.
response_message(agent_id, agent) ==
  IF agent.status = "paused"
  THEN chat_entry("agent_response", agent_id, "human", "is currently paused")
  ELSE chat_entry("agent_response", agent_id, "human", "mock response")

\* What send_chat_message does to the target agent: nothing when it is
\* paused, else status 'working' and the task 'Processing: ...'.
chat_update_always(agent) ==
  [agent EXCEPT !.status = "working", !.current_task = "Processing"]

chat_update(agent) ==
  IF agent.status = "paused" THEN agent
  ELSE [agent EXCEPT !.status = "working", !.current_task = "Processing"]

\* send_chat_message with a target agent of the agents dictionary; the
\* handler has no await that yields, so it runs as one step.
CH_send_chat_message(p, target) ==
  /\ variant = "CH"
  /\ p \in submitted
  /\ Len(chat_history) + 2 <= MaxChat
  /\ Len(messages) < MaxMessages
  /\ \E id \in MessageIds \ UsedIds :
       messages' = Append(messages,
         message_row(id, p, "human", target, "text", "sent", 0))
  /\ chat_history' = chat_history
       \o << chat_entry("text", "human", target, "text"),
             response_message(target, agents[target]) >>
  /\ agents' = [agents EXCEPT ![target] = chat_update(@)]
  /\ UNCHANGED << variant, adapter, submitted, lastError, succeeded,
                  taskVars, amVars, dbStage, dbStatus, stage_outputs, requests,
                  cancelRequested, resumes, smVars, clock >>

AgentActions == {"pause", "resume", "stop"}

\* The status and current_task agent_action assigns.
action_update(agent, action) ==
  CASE action = "pause" ->
         [agent EXCEPT !.status = "paused", !.current_task = "Paused by user"]
    [] action = "resume" ->
         [agent EXCEPT !.status = "idle",
                       !.current_task = "Ready for instructions"]
    [] OTHER -> [agent EXCEPT !.status = "idle", !.current_task = "none"]

\* The system message agent_action appends to chat_history.
system_message(agent_id, action) ==
  chat_entry("system", "system", "human", << agent_id, action >>)

\* agent_action with pause, resume or stop
CH_agent_action(agent_id, action) ==
  /\ variant = "CH"
  /\ Len(chat_history) < MaxChat
  /\ agents' = [agents EXCEPT ![agent_id] = action_update(@, action)]
  /\ chat_history' = Append(chat_history, system_message(agent_id, action))
  /\ UNCHANGED << variant, adapter, submitted, lastError, succeeded,
                  taskVars, amVars, dbStage, dbStatus, stage_outputs, requests,
                  cancelRequested, resumes, smVars, messages, clock >>

\* CURRENT_TIMESTAMP / time() advances.
Tick ==
  /\ variant \in {"AQ", "CD", "FS", "MQ"}
  /\ clock < MaxClock
  /\ clock' = clock + 1
  /\ UNCHANGED << variant, adapter, submitted, agents, chat_history,
                  lastError, succeeded,
                  taskVars, amVars, dbStage,
                  dbStatus, stage_outputs, requests, messages, cancelRequested,
                  resumes, smVars >>

\* ======================= CD: Database conflicts (complete_backend_generator)
\* Database.create_conflict
CD_create_conflict(p, stage) ==
  /\ variant = "CD"
  /\ Len(requests) < MaxRequests
  /\ requests' = Append(requests, NewRequest(Len(requests) + 1, p, stage))
  /\ UNCHANGED << variant, adapter, submitted, agents, chat_history,
                  lastError, succeeded,
                  taskVars, amVars, dbStage,
                  dbStatus, stage_outputs, messages, clock, cancelRequested,
                  resumes, smVars >>

\* Database.resolve_conflict
CD_resolve_conflict(conflict_id, resolution) ==
  /\ variant = "CD"
  /\ requests' = UpdateResolved(requests, conflict_id, resolution)
  /\ UNCHANGED << variant, adapter, submitted, agents, chat_history,
                  lastError, succeeded,
                  taskVars, amVars, dbStage,
                  dbStatus, stage_outputs, messages, clock, cancelRequested,
                  resumes, smVars >>

\* ===================== FS: StateManager conflicts (fixed_developer_agent)
\* len(self.project_states[project_id]['conflicts'])
FS_conflicts(p) == {i \in 1..Len(requests) : requests[i].project = p}

\* StateManager.create_project_state
FS_create_project_state(p) ==
  /\ variant = "FS"
  /\ pc[p] = "new"
  /\ pc' = [pc EXCEPT ![p] = "tracked"]
  /\ dbStatus' = [dbStatus EXCEPT ![p] = "created"]
  /\ UNCHANGED << variant, adapter, submitted, agents, chat_history,
                  lastError, succeeded,
                  idx, attempt, invocations,
                  amVars, dbStage, stage_outputs, requests, messages, clock,
                  cancelRequested, resumes, smVars >>

\* StateManager.add_conflict: the id is "conflict_<number of conflicts>".
FS_add_conflict(p) ==
  /\ variant = "FS"
  /\ pc[p] = "tracked"
  /\ Len(requests) < MaxRequests
  /\ requests' = Append(requests,
       NewRequest(Cardinality(FS_conflicts(p)), p, "none"))
  /\ UNCHANGED << variant, adapter, submitted, agents, chat_history,
                  lastError, succeeded,
                  taskVars, amVars, dbStage,
                  dbStatus, stage_outputs, messages, clock, cancelRequested,
                  resumes, smVars >>

\* StateManager.resolve_conflict
FS_resolve_conflict(p, conflict_id, resolution) ==
  /\ variant = "FS"
  /\ pc[p] = "tracked"
  /\ requests' =
       [i \in 1..Len(requests) |->
          IF requests[i].project = p /\ requests[i].id = conflict_id
          THEN [requests[i] EXCEPT !.status = "resolved",
                                   !.resolution = resolution,
                                   !.resolved_at = clock]
          ELSE requests[i]]
  /\ UNCHANGED << variant, adapter, submitted, agents, chat_history,
                  lastError, succeeded,
                  taskVars, amVars, dbStage,
                  dbStatus, stage_outputs, messages, clock, cancelRequested,
                  resumes, smVars >>

\* ======================= SM: StateManager transitions (backend_generator)
SM_States == {"idle", "analyzing", "architecting", "developing", "testing",
              "completed", "error"}

\* valid_transitions of StateManager.transition_state
valid_transitions(from) ==
  CASE from = "idle" -> {"analyzing"}
    [] from = "analyzing" -> {"architecting", "error"}
    [] from = "architecting" -> {"developing", "error"}
    [] from = "developing" -> {"testing", "error"}
    [] from = "testing" -> {"completed", "error"}
    [] from = "error" -> {"analyzing", "architecting", "developing", "testing"}
    [] OTHER -> {}

\* StateManager.load_state: the cached state, else the stored one.
SM_load_state(p) ==
  IF sm_cache[p] # NoState THEN sm_cache[p] ELSE sm_db[p]

\* The stage StateManager holds for a project; "idle" before the first save.
SM_current_stage(p) ==
  IF SM_load_state(p) = NoState THEN "idle"
  ELSE SM_load_state(p).current_stage

\* StateManager.transition_state, with the save_state it ends in.
SM_transition_state(p, from_state, to_state) ==
  /\ variant = "SM"
  /\ p \in submitted
  /\ IF to_state \notin valid_transitions(from_state)
     THEN UNCHANGED smVars
     ELSE LET state_data == [current_stage |-> to_state,
                             previous_stage |-> from_state]
          IN /\ sm_db' = [sm_db EXCEPT ![p] = state_data]
             /\ sm_cache' = [sm_cache EXCEPT ![p] = state_data]
  /\ UNCHANGED << variant, adapter, submitted, agents, chat_history,
                  lastError, succeeded,
                  taskVars, amVars, dbStage,
                  dbStatus, stage_outputs, requests, messages, clock,
                  cancelRequested, resumes >>

\* StateManager.clear_cache(project_id)
SM_clear_cache(p) ==
  /\ variant = "SM"
  /\ p \in submitted
  /\ sm_cache' = [sm_cache EXCEPT ![p] = NoState]
  /\ UNCHANGED << variant, adapter, submitted, agents, chat_history,
                  lastError, succeeded,
                  taskVars, amVars, dbStage,
                  dbStatus, stage_outputs, requests, messages, clock,
                  cancelRequested, resumes, sm_db >>

Next ==
  \/ \E p \in Projects : AM_process_project(p)
  \/ \E p \in Projects : AM_process_stage(p)
  \/ \E p \in Projects : AM_adapter_returns(p)
  \/ \E p \in Projects : AM_after_intervention(p)
  \/ \E p \in Projects : AM_retry(p)
  \/ \E p \in Projects : AM_cancel_workflow(p)
  \/ \E p \in Projects : AM_resume_workflow(p)
  \/ AM_Restart
  \/ \E p \in Projects : WP_execute_pipeline(p)
  \/ \E p \in Projects : WP_adapter_returns(p)
  \/ \E p \in Projects : WP_handle_stage_error(p)
  \/ \E p \in Projects : WP_retry_returns(p)
  \/ \E p \in Projects : WP_cancel_pipeline(p)
  \/ \E p \in Projects : WP_resume_pipeline(p)
  \/ \E p \in Projects : CM_process_project(p)
  \/ \E p \in Projects : CM_wait_for_dependencies(p)
  \/ \E p \in Projects : CM_process_with_agent(p)
  \/ \E p \in Projects, a \in Agents, e \in {"ambiguous", "other"} :
       CM_handle_agent_error(p, a, e)
  \/ \E p \in Projects, a \in AQ_Agents : AQ_escalate_to_human(p, a)
  \/ \E id \in 1..MaxRequests, r \in Options : AQ_respond_to_action(id, r)
  \/ \E p \in Projects, a \in AQ_Agents, c \in Confidences :
       MQ_add_message(p, a, c)
  \/ \E id \in MessageIds, st \in MessageStatuses :
       MQ_update_message_status(id, st)
  \/ \E a \in AQ_Agents, p \in Projects, t \in MessageTypes :
       PM_process_message(a, p, t)
  \/ \E a \in AQ_Agents : PM_llm_returns(a)
  \/ \E p \in Projects, a \in ChatTargets : CH_send_chat_message(p, a)
  \/ \E a \in ChatTargets, act \in AgentActions : CH_agent_action(a, act)
  \/ Tick
  \/ \E p \in Projects, a \in AQ_Agents : CD_create_conflict(p, a)
  \/ \E id \in 1..MaxRequests, r \in Options : CD_resolve_conflict(id, r)
  \/ \E p \in Projects : FS_create_project_state(p)
  \/ \E p \in Projects : FS_add_conflict(p)
  \/ \E p \in Projects, id \in 0..(MaxRequests - 1), r \in Options :
       FS_resolve_conflict(p, id, r)
  \/ \E p \in Projects, f \in SM_States, t \in SM_States :
       SM_transition_state(p, f, t)
  \/ \E p \in Projects : SM_clear_cache(p)

Spec == Init /\ [][Next]_vars

\* One step of a project's pipeline coroutine: the event loop runs a
\* coroutine that is ready, the adapter call returns or times out, and a
\* sleep ends.
PipelineStep(p) ==
  \/ AM_process_stage(p)
  \/ AM_adapter_returns(p)
  \/ AM_after_intervention(p)
  \/ AM_retry(p)
  \/ WP_adapter_returns(p)
  \/ WP_handle_stage_error(p)
  \/ WP_retry_returns(p)
  \/ CM_wait_for_dependencies(p)
  \/ CM_process_with_agent(p)

LiveInit == Init /\ variant \in {"AM", "WP", "CM"}

LiveNext ==
  \/ \E p \in Projects : AM_process_project(p)
  \/ \E p \in Projects : AM_cancel_workflow(p)
  \/ \E p \in Projects : AM_resume_workflow(p)
  \/ \E p \in Projects : WP_execute_pipeline(p)
  \/ \E p \in Projects : WP_cancel_pipeline(p)
  \/ \E p \in Projects : WP_resume_pipeline(p)
  \/ \E p \in Projects : CM_process_project(p)
  \/ \E p \in Projects, a \in Agents, e \in {"ambiguous", "other"} :
       CM_handle_agent_error(p, a, e)
  \/ \E p \in Projects : PipelineStep(p)

LiveSpec ==
  LiveInit /\ [][LiveNext]_vars /\ \A p \in Projects : WF_vars(PipelineStep(p))

\* Two projects are submitted to one AgentManager, whose adapters succeed.
ConcInit ==
  /\ variant = "AM"
  /\ adapter = "succeeds"
  /\ submitted = Projects
  /\ InitState

ConcNext ==
  \/ \E p \in Projects : AM_process_project(p)
  \/ \E p \in Projects : AM_process_stage(p)
  \/ \E p \in Projects : AM_adapter_returns(p)
  \/ \E p \in Projects : AM_after_intervention(p)

ConcSpec == ConcInit /\ [][ConcNext]_vars

\* The messages table alone: rows are added, their status is updated, time
\* passes.
QueueInit ==
  /\ variant = "MQ"
  /\ adapter = "succeeds"
  /\ submitted = {"p1"}
  /\ InitState

QueueNext ==
  \/ \E p \in Projects, a \in AQ_Agents, c \in Confidences :
       MQ_add_message(p, a, c)
  \/ \E id \in MessageIds, st \in MessageStatuses :
       MQ_update_message_status(id, st)
  \/ Tick

QueueSpec == QueueInit /\ [][QueueNext]_vars

\* The analyst and the architect process messages, as asyncio.gather runs
\* their process_message calls.
AgentInit ==
  /\ variant = "PM"
  /\ adapter \in {"succeeds", "unreliable"}
  /\ submitted = {"p1"}
  /\ InitState

AgentNext ==
  \/ \E a \in AQ_Agents, p \in Projects, t \in MessageTypes :
       PM_process_message(a, p, t)
  \/ \E a \in AQ_Agents : PM_llm_returns(a)

AgentSpec == AgentInit /\ [][AgentNext]_vars

\* The chat and agent-action endpoints of main.py.
ChatInit ==
  /\ variant = "CH"
  /\ adapter = "succeeds"
  /\ submitted = {"p1"}
  /\ InitState

ChatNext ==
  \/ \E p \in Projects, a \in ChatTargets : CH_send_chat_message(p, a)
  \/ \E a \in ChatTargets, act \in AgentActions : CH_agent_action(a, act)

ChatSpec == ChatInit /\ [][ChatNext]_vars

\* ------------------------------------------------------- observed quantities
\* The stage a project is recorded in: the stage column AgentManager writes,
\* or the current_stage StateManager holds.
ProjectStage(p) ==
  CASE variant = "AM" -> dbStage[p]
    [] variant = "SM" -> SM_current_stage(p)
    [] OTHER -> "idle"

\* The lifecycle status a status query reports for a project.
ProjectStatus(p) ==
  CASE variant = "AM" -> dbStage[p]
    [] variant = "SM" -> SM_current_stage(p)
    [] OTHER -> dbStatus[p]

\* This step begins an Agent Adapter call for p.
Invokes(p) ==
  /\ pc'[p] \in {"exec", "retry_exec"}
  /\ \/ pc'[p] # pc[p]
     \/ idx'[p] # idx[p]
     \/ invocations'[p] # invocations[p]

\* This step moves p's pipeline to another stage or calls an adapter.
StartsStage(p) == idx'[p] # idx[p] \/ Invokes(p)

\* ==================================================================== claims

\* C1: the Agent Adapter invocations made for one stage execution, the first
\* attempt included, never exceed RetryPolicy.maxAttempts (3).
C1_RetryBound == \A p \in Projects : invocations[p] <= MaxAttempts

\* C2: once a request is resolved, a further ResolveIntervention call leaves
\* its status, resolution value and resolved timestamp as the first call set
\* them.
C2_ResolveIdempotent ==
  [][\A i \in 1..Len(requests) :
       requests[i].status = "resolved" => requests'[i] = requests[i]]_vars

\* C3: every change of a project's Stage goes to the next stage in the order
\* analyzing, architecting, developing, testing (idle first, completed last),
\* or to error / cancelled; a re-entry keeps the stage.  No change goes to an
\* earlier stage.
StageStepAllowed(s, t) ==
  \/ s = t
  \/ t \in {"error", "cancelled"}
  \/ StageRank(s) > 0 /\ StageRank(t) = StageRank(s) + 1
  \/ s = "idle" /\ t = "analyzing"
  \/ s = "testing" /\ t = "completed"

C3_StageMonotone ==
  [][\A p \in Projects :
       StageStepAllowed(ProjectStage(p), ProjectStage(p)')]_vars

\* C4: while the intervention request a stage raised is pending (so no resume
\* has been triggered by its resolution), the orchestrator reports
\* waiting_approval and starts no stage and no adapter call for the project.
C4_SuspendedUntilResume ==
  [][\A p \in Projects :
       (variant = "AM" /\ PendingOf(p) # {} /\ ~cancelRequested'[p])
         => (current_stage' = "waiting_approval" /\ ~StartsStage(p))]_vars

\* C5: with an adapter that always succeeds, a started pipeline eventually
\* ends with status completed, error or cancelled, or stays in
\* waiting_approval for good; it never remains in processing forever.
Started(p) == variant \in {"AM", "WP", "CM"} /\ pc[p] # "new"

Terminal(p) ==
  pc[p] = "done" /\ ProjectStatus(p) \in {"completed", "error", "cancelled"}

Waiting(p) ==
  variant = "AM" /\ current_project_id = p /\ current_stage = "waiting_approval"

C5_EventuallyTerminal ==
  \A p \in Projects :
    ((adapter = "succeeds" /\ Started(p)) ~> Terminal(p)) \/ <>[]Waiting(p)

C5_Witness ==
  \E p \in Projects :
    adapter = "succeeds" /\ Started(p) /\ pc[p] = "done"
      /\ ProjectStatus(p) = "completed"

\* C6: after cancel was called for a project, no new stage and no new retry
\* attempt is started for it, and the result of a call in flight is neither
\* stored as stage output nor used to advance the stage.
C6_CancelStopsPipeline ==
  [][\A p \in Projects :
       (cancelRequested[p] /\ pc[p] # "new")
         => /\ ~StartsStage(p)
            /\ stage_results' = stage_results
            /\ stage_outputs'[p] = stage_outputs[p]]_vars

\* C7: once a project's status is error or cancelled, no later step changes
\* its stage or status.
C7_ErrorCancelledTerminal ==
  [][\A p \in Projects :
       ProjectStatus(p) \in {"error", "cancelled"}
         => /\ ProjectStatus(p)' = ProjectStatus(p)
            /\ ProjectStage(p)' = ProjectStage(p)]_vars

\* C8: each project has at most one intervention request whose status is
\* pending.
C8_OnePendingPerProject ==
  \A p \in Projects : Cardinality(PendingOf(p)) <= 1

\* C9: a raise for a (project, stage) that already has a pending request is
\* rejected: it adds no record for that project and stage.
RowsFor(rows, p, s) ==
  {i \in 1..Len(rows) : rows[i].project = p /\ rows[i].stage = s}

C9_RaiseIdempotent ==
  [][\A i \in 1..Len(requests) :
       requests[i].status = "pending"
         => Cardinality(RowsFor(requests', requests[i].project, requests[i].stage))
              = Cardinality(RowsFor(requests, requests[i].project, requests[i].stage))
    ]_vars

\* C10: the step that resolves a pending request also writes a synthetic
\* message that carries the chosen option for the request's project, and
\* resumes the orchestrator exactly once for that project.
C10_ResolveResumes ==
  [][\A i \in 1..Len(requests) :
       (requests[i].status = "pending" /\ requests'[i].status = "resolved")
         => /\ Len(messages') = Len(messages) + 1
            /\ messages'[Len(messages')].project = requests[i].project
            /\ messages'[Len(messages')].content = requests'[i].resolution
            /\ resumes'[requests[i].project] = resumes[requests[i].project] + 1
    ]_vars

\* C11: a stage result whose confidence is below the threshold, or that is
\* flagged as needing approval, is not handed to the next stage: it is not
\* stored as the stage's result with the pipeline moving on, no handoff
\* message carries it, and when the flagged result arrives the project is in
\* waiting_approval with exactly one pending request for that stage.
RequiresIntervention(kind) ==
  kind = "needs_approval" \/ ConfidenceOf(kind) < confidence_threshold

PendingFor(rows, p, s) ==
  {i \in 1..Len(rows) :
     rows[i].project = p /\ rows[i].stage = s /\ rows[i].status = "pending"}

C11_LowConfidenceIntervenes ==
  [][/\ \A a \in Agents :
          (stage_results'[a] # stage_results[a] /\ stage_results'[a] # NoResult)
            => ~RequiresIntervention(stage_results'[a].kind)
     /\ (Len(messages') > Len(messages)
           /\ messages'[Len(messages')].message_type = "handoff")
          => messages'[Len(messages')].confidence >= confidence_threshold
     /\ \A p \in Projects :
          (pc[p] = "exec" /\ pc'[p] = "intervened")
            => /\ current_stage' = "waiting_approval"
               /\ Cardinality(PendingFor(requests', p, StageAt(idx[p]))) = 1
    ]_vars

\* C12: when a stage gives up after a Transient failure of its last attempt,
\* that step creates one pending intervention request for the project and
\* does not set the project to error.
Exhausted(p) == pc[p] \in {"exec", "retry_exec"} /\ pc'[p] = "done"

C12_TransientEscalates ==
  [][\A p \in Projects :
       (Exhausted(p) /\ lastError'[p] = "transient")
         => /\ Len(requests') = Len(requests) + 1
            /\ requests'[Len(requests')].project = p
            /\ requests'[Len(requests')].status = "pending"
            /\ ProjectStatus(p)' # "error"]_vars

\* C13: the adapter call that ends in a Fatal error ends the pipeline with
\* the project in error in that same step, and while the last failure of a
\* project is Fatal no adapter call is started for it.
C13_FatalNeverRetried ==
  [][\A p \in Projects :
       /\ (pc[p] \in {"exec", "retry_exec"} /\ pc'[p] # pc[p]
             /\ lastError'[p] = "fatal")
            => (pc'[p] = "done" /\ ProjectStatus(p)' = "error")
       /\ lastError[p] = "fatal" => ~Invokes(p)]_vars

\* C14: no adapter call is started for a stage of a project whose adapter
\* already returned valid output for that project, also after the process
\* was restarted against the same store.
C14_NoReinvocationAfterRestart ==
  [][\A p \in Projects :
       Invokes(p) => AgentAt(idx'[p]) \notin succeeded[p]]_vars

\* C15: when a project's pipeline moves from one stage to the next, the store
\* already holds a message written by the finished stage's agent for the
\* project, or an intervention request of that stage.
C15_TransitionAfterDurableWrite ==
  [][\A p \in Projects :
       (idx[p] >= 1 /\ idx'[p] = idx[p] + 1)
         => \/ \E i \in 1..Len(messages') :
                 /\ messages'[i].project = p
                 /\ messages'[i].from_agent = AgentAt(idx[p])
            \/ \E i \in 1..Len(requests') :
                 /\ requests'[i].project = p
                 /\ requests'[i].stage \in {StageAt(idx[p]), AgentAt(idx[p])}
    ]_vars

\* C16: a project's pipeline is one coroutine, so one stage runs at a time;
\* it moves to the next stage only when the adapter of the stage it leaves
\* has returned valid output for the project and that output is held as the
\* stage's result, from which the next input is built.
OutputAvailable(results, outputs, p, a) ==
  IF variant = "AM"
  THEN results[a].project = p /\ results[a].kind \in SuccessOutcomes
  ELSE a \in outputs[p]

C16_SequentialAfterSuccess ==
  [][\A p \in Projects :
       (idx[p] >= 1 /\ idx'[p] = idx[p] + 1)
         => /\ AgentAt(idx[p]) \in succeeded'[p]
            /\ OutputAvailable(stage_results', stage_outputs', p,
                               AgentAt(idx[p]))]_vars

\* C17: a transition is applied on the state the store holds at that moment:
\* the state StateManager replaces is the from-state of the transition, and
\* the stage the pipeline loop replaces is the one the loop itself wrote, so
\* that no write of a concurrent cancel is overwritten.
C17_SerializedTransitions ==
  [][\A p \in Projects :
       /\ (variant = "SM" /\ SM_current_stage(p)' # SM_current_stage(p))
            => SM_load_state(p)'.previous_stage = SM_current_stage(p)
       /\ (variant = "AM" /\ pc[p] # "new" /\ pc'[p] # pc[p]
             /\ dbStage'[p] # dbStage[p])
            => dbStage[p] = StageAt(idx[p])]_vars

\* C18: when a project's pipeline ends, the results the manager returns for
\* it hold only results of that project, and the stage the manager reports
\* is the stage recorded for that project, as when the project runs alone.
C18_ProjectsIndependent ==
  [][\A p \in Projects :
       (variant = "AM" /\ pc[p] # "done" /\ pc'[p] = "done")
         => /\ \A a \in Agents : stage_results'[a].project \in {p, "none"}
            /\ current_project_id' = p
            /\ current_stage' = dbStage'[p]]_vars

\* C19: when every stage's adapter returned valid output of confidence 0.9
\* and the pipeline has ended, the project's status is completed and the
\* store holds exactly four messages of the project, written by analyst,
\* architect, developer and tester in this order.
AllStagesOk(p) ==
  \A a \in Agents : stage_results[a] = [project |-> p, kind |-> "ok"]

MessagesOf(p) == SelectSeq(messages, LAMBDA m : m.project = p)

C19_HappyPathMessages ==
  \A p \in Projects :
    (variant = "AM" /\ pc[p] = "done" /\ AllStagesOk(p))
      => /\ ProjectStatus(p) = "completed"
         /\ Len(MessagesOf(p)) = NumStages
         /\ \A i \in 1..Len(MessagesOf(p)) :
              MessagesOf(p)[i].from_agent = AgentAt(i)

\* C20: the result of an adapter call whose output failed validate_output
\* (empty, or required fields missing) never becomes the stored result of a
\* stage, from which the input of the next stage is taken.
C20_MalformedOutputFails ==
  [][\A a \in Agents :
       stage_results'[a].kind = "invalid_output"
         => stage_results'[a] = stage_results[a]]_vars

\* C21: a stage execution never ends by an exception that leaves it: when the
\* adapter call of a stage ends the execution (no further retry follows), the
\* stage has handed a result, success or classified failure, to the pipeline,
\* which holds it as the result of that stage.
StageExecutionEnds(p) ==
  variant = "AM" /\ pc[p] = "exec" /\ pc'[p] \in {"stage_set", "done"}

C21_StageReturnsResult ==
  [][\A p \in Projects :
       StageExecutionEnds(p) => stage_results'[AgentAt(idx[p])].project = p]_vars

\* C22: whenever the project the manager works on is in status error, the
\* status query holds an error message, and the last one names the pipeline
\* stage the project was in when it failed.
C22_ErrorCarriesStage ==
  \A p \in Projects :
    (variant = "AM" /\ ProjectStatus(p) = "error"
       /\ get_workflow_status.project_id = p)
      => LET errs == get_workflow_status.errors
         IN /\ Len(errs) > 0
            /\ errs[Len(errs)].stage = StageAt(idx[p])

\* C23: when an attempt of a stage has failed and the retry is scheduled, the
\* attempt counter the store holds for the project's message equals the
\* number of attempts made in this stage execution.
PersistedAttempts(p) ==
  IF MessagesOf(p) = << >> THEN 0
  ELSE MessagesOf(p)[Len(MessagesOf(p))].attempt_number

C23_AttemptsPersisted ==
  \A p \in Projects :
    (variant = "AM" /\ pc[p] = "sleep") => PersistedAttempts(p) = invocations[p]

\* C24: every result of the pending-message lookup for a recipient lists the
\* recipient's pending messages by creation timestamp, and messages of equal
\* timestamp by message id.
OldestFirst(rows) ==
  \A j, k \in 1..Len(rows) :
    j < k => \/ rows[j].timestamp < rows[k].timestamp
             \/ /\ rows[j].timestamp = rows[k].timestamp
                /\ rows[j].id < rows[k].id

C24_PendingOldestFirst ==
  \A a \in Agents : \A rows \in get_pending_messages(a) : OldestFirst(rows)

\* C25: a step that changes the status of a message changes the status field
\* of that one row and nothing else: its other fields, and every other row,
\* stay as they were.
StatusUpdated(i) ==
  /\ i \in 1..Len(messages)
  /\ Len(messages') = Len(messages)
  /\ messages'[i].status # messages[i].status

C25_StatusUpdateFrame ==
  [][\A i \in 1..MaxMessages :
       StatusUpdated(i)
         => /\ messages'[i] = [messages[i] EXCEPT !.status = messages'[i].status]
            /\ \A j \in 1..Len(messages) : j # i => messages'[j] = messages[j]
    ]_vars

\* Two rows of one project, one updated to error and one still pending.
C25_Witness ==
  /\ variant = "MQ"
  /\ \E i, j \in 1..Len(messages) :
       /\ messages[i].status = "error"
       /\ messages[j].status = "pending"
       /\ messages[i].project = messages[j].project

\* C26: a process_message call that returns a result of status complete has
\* added exactly one row to the messages table, a pending handoff from the
\* agent to its successor for the project of the message it processed, and
\* has left every row that was there as it was, whatever the other agent
\* does in between.
Completes(a) ==
  variant = "PM" /\ agents[a].pc = "llm" /\ agents'[a].result = "complete"

C26_OneHandoffEach ==
  [][\A a \in AQ_Agents :
       Completes(a)
         => /\ Len(messages') = Len(messages) + 1
            /\ SubSeq(messages', 1, Len(messages)) = messages
            /\ LET m == messages'[Len(messages')]
               IN /\ m.from_agent = a
                  /\ m.to_agent = IF a = "analyst" THEN "architect"
                                   ELSE "developer"
                  /\ m.status = "pending"
                  /\ m.project = agents[a].project
    ]_vars

\* Both agents completed calls that were in flight at the same time, and
\* the table holds the handoff of each.
C26_Witness ==
  /\ variant = "PM"
  /\ \A a \in AQ_Agents : agents[a].result = "complete" /\ agents[a].overlap
  /\ Cardinality(PendingRows("architect")) = 1
  /\ Cardinality(PendingRows("developer")) = 1

\* C27: a step of transition_state that changes the stage StateManager holds
\* for a project goes from the stage it held to a stage the transition table
\* allows after that stage: a call whose from_state is not the stage held
\* changes nothing.
C27_TransitionFromStored ==
  [][\A p \in Projects :
       (variant = "SM" /\ SM_load_state(p)' # SM_load_state(p))
         => SM_current_stage(p)' \in valid_transitions(SM_current_stage(p))
    ]_vars

\* C28: when a retry inside _handle_stage_error succeeds and the pipeline
\* goes on, the output of that retry is held as the output of the stage, as
\* it is after a first-try success.
RetrySucceeds(p) ==
  /\ variant = "WP"
  /\ pc[p] = "retry_exec"
  /\ pc'[p] \notin {"retry_exec", "retry_sleep"}
  /\ dbStatus'[p] # "error"

C28_RetryOutputRecorded ==
  [][\A p \in Projects :
       RetrySucceeds(p) => AgentAt(idx[p]) \in stage_outputs'[p]]_vars

\* C29: a step taken while an agent is paused leaves the agent's status and
\* current task as they are unless it is a resume or stop action for that
\* agent; and a chat message sent to a paused agent is stored in the messages
\* table and answered in the chat history with the paused notice.
ResumedOrStopped(a) ==
  /\ agents'[a].status = "idle"
  /\ \E act \in {"resume", "stop"} :
       chat_history' = Append(chat_history, system_message(a, act))

ChatSentTo(a) ==
  /\ Len(messages') = Len(messages) + 1
  /\ messages'[Len(messages')].to_agent = a
  /\ messages'[Len(messages')].from_agent = "human"

C29_PausedStaysPaused ==
  [][\A a \in Agents :
       (variant = "CH" /\ agents[a].status = "paused")
         => /\ agents'[a] = agents[a] \/ ResumedOrStopped(a)
            /\ ChatSentTo(a)
                 => /\ agents'[a] = agents[a]
                    /\ messages'[Len(messages')].status = "sent"
                    /\ Len(chat_history') = Len(chat_history) + 2
                    /\ chat_history'[Len(chat_history')] =
                         chat_entry("agent_response", a, "human",
                                    "is currently paused")
    ]_vars

\* A paused agent was sent a chat message: the row is stored, the notice is
\* the last chat entry, and the agent is still paused.
C29_Witness ==
  /\ variant = "CH"
  /\ \E a \in Agents :
       /\ agents[a].status = "paused"
       /\ agents[a].current_task = "Paused by user"
       /\ \E i \in 1..Len(messages) : messages[i].to_agent = a
       /\ Len(chat_history) > 0
       /\ chat_history[Len(chat_history)] =
            chat_entry("agent_response", a, "human", "is currently paused")

\* C30: when a process_message call returns, the agent's status is idle or
\* error, whatever the message type and the LLM outcome; and a step that
\* enqueues a handoff is the return of a result of status complete.
Returns(a) ==
  /\ variant = "PM"
  /\ agents'[a] # agents[a]
  /\ agents'[a].pc = "idle"

C30_NeverLeftThinking ==
  [][\A a \in AQ_Agents :
       /\ Returns(a) => agents'[a].status \in {"idle", "error"}
       /\ (variant = "PM" /\ Len(messages') > Len(messages)
             /\ messages'[Len(messages')].from_agent = a)
            => agents'[a].result = "complete"
    ]_vars

====
